---- MODULE Spec2Model ----
(***************************************************************************)
(* Model of the BayesianNetwork class of bayesian.py and of the networks   *)
(* built by bayesian.py and run.py.                                        *)
(*                                                                         *)
(* A numpy array of floats is modelled as an exact rational array: a      *)
(* record [data, den] whose entry at index idx is data[idx] / den, kept in *)
(* lowest terms (Reduce), so that equal arrays are equal records.  All     *)
(* axes have length 2.  An index is a tuple over {0,1}; Python positions   *)
(* (axis numbers, list indices) are 0-based in the source and 1-based      *)
(* here.  A graph node is the 0-based row number of the adjacency matrix,  *)
(* as networkx makes it; a factor's variables are names (strings).         *)
(***************************************************************************)
EXTENDS Integers, Sequences, FiniteSets, TLC

VARIABLES
    nodes,      \* self.nodes: the list of variable names
    graph,      \* self.graph: [nodes, edges] of the DiGraph
    factors,    \* bn.factors: the network's factor list
    pc,         \* "idle"; "ve" or "gibbs" while that query runs; "done" when
                \* a query has ended and the caller holds what it gave
    dsep,       \* the d_separation call that ended and what it gave
    ve,         \* the frame of the running variable_elimination call
    veResult,   \* the variable_elimination call that ended and what it gave
    lastMul,    \* the last multiply_factors call: its inputs and its output
    gibbs,      \* the frame of the gibbs_sampling call
    lastSample, \* the last sample_var call: its inputs and the weights
    gibbsResult \* the gibbs_sampling call that ended and what it gave

vars == <<nodes, graph, factors, pc, dsep, ve, veResult, lastMul, gibbs,
          lastSample, gibbsResult>>

(* Bounds of the model. *)
MaxEvidence == 2
MaxZ == 2
MaxSamples == 2
MaxBurnIn == 1

Values == {0, 1}

Max(a, b) == IF a >= b THEN a ELSE b

SetOf(s) == {s[i] : i \in DOMAIN s}

(***************************************************************************)
(* numpy arrays                                                            *)
(***************************************************************************)
Idx(r) == [1..r -> Values]

Ndim(a) == Len(CHOOSE i \in DOMAIN a.data : TRUE)

RECURSIVE Gcd(_, _)
Gcd(a, b) == IF b = 0 THEN a ELSE Gcd(b, a % b)

RECURSIVE GcdOver(_, _, _)
GcdOver(f, S, g) ==
    IF S = {} THEN g
    ELSE LET x == CHOOSE x \in S : TRUE IN GcdOver(f, S \ {x}, Gcd(g, f[x]))

\* The same rational array in lowest terms.
Reduce(a) ==
    LET g == GcdOver(a.data, DOMAIN a.data, a.den)
    IN  [data |-> [idx \in DOMAIN a.data |-> a.data[idx] \div g], den |-> a.den \div g]

Suffix(idx, r) == [k \in 1..r |-> idx[Len(idx) - r + k]]

\* np.multiply(a, b): broadcasting aligns the trailing axes.
NpMultiply(a, b) ==
    LET r == Max(Ndim(a), Ndim(b))
    IN  Reduce([data |-> [idx \in Idx(r) |->
                     a.data[Suffix(idx, Ndim(a))] * b.data[Suffix(idx, Ndim(b))]],
                den  |-> a.den * b.den])

Insert(idx, axis, b) ==
    [k \in 1..(Len(idx) + 1) |->
        IF k < axis THEN idx[k] ELSE IF k = axis THEN b ELSE idx[k - 1]]

\* np.sum(a, axis=axis)
NpSumAxis(a, axis) ==
    Reduce([data |-> [idx \in Idx(Ndim(a) - 1) |->
                 a.data[Insert(idx, axis, 0)] + a.data[Insert(idx, axis, 1)]],
            den  |-> a.den])

RECURSIVE SumOver(_, _)
SumOver(f, S) ==
    IF S = {} THEN 0
    ELSE LET x == CHOOSE x \in S : TRUE IN f[x] + SumOver(f, S \ {x})

\* np.sum(a): the numerator of the total; the total is NpSum(a) / a.den.
NpSum(a) == SumOver(a.data, DOMAIN a.data)

\* a /= total, with total = NpSum(a) / a.den: entry data[idx] / NpSum(a).
NpDivideByTotal(a) == Reduce([data |-> a.data, den |-> NpSum(a)])

\* np.array(t) of nesting depth 1, 2, 3, the entries given in units of 1/d
Array1(t, d) == Reduce([data |-> [idx \in Idx(1) |-> t[idx[1] + 1]], den |-> d])
Array2(t, d) ==
    Reduce([data |-> [idx \in Idx(2) |-> t[idx[1] + 1][idx[2] + 1]], den |-> d])
Array3(t, d) ==
    Reduce([data |-> [idx \in Idx(3) |-> t[idx[1] + 1][idx[2] + 1][idx[3] + 1]],
            den |-> d])

(***************************************************************************)
(* The networks                                                            *)
(***************************************************************************)
Scale == 1000

Names == <<"Burglary", "Earthquake", "Alarm", "JohnCalls", "MaryCalls">>

\* nx.DiGraph(adjacency_matrix): node i-1 per row, an edge per non-zero entry.
DiGraph(m) ==
    [nodes |-> {i - 1 : i \in DOMAIN m},
     edges |-> {e \in (0..(Len(m) - 1)) \X (0..(Len(m) - 1)) :
                  m[e[1] + 1][e[2] + 1] # 0}]

\* The alarm network as described: Burglary -> Alarm, Earthquake -> Alarm,
\* Alarm -> JohnCalls, Alarm -> MaryCalls.
AlarmAdjacency ==
    << <<0, 0, 1, 0, 0>>,
       <<0, 0, 1, 0, 0>>,
       <<0, 0, 0, 1, 1>>,
       <<0, 0, 0, 0, 0>>,
       <<0, 0, 0, 0, 0>> >>

\* run.py's matrix: its first row also has Burglary -> Earthquake.
RunAdjacency ==
    << <<0, 1, 1, 0, 0>>,
       <<0, 0, 1, 0, 0>>,
       <<0, 0, 0, 1, 1>>,
       <<0, 0, 0, 0, 0>>,
       <<0, 0, 0, 0, 0>> >>

RunFactors ==
    << [variables |-> <<"Burglary">>, values |-> Array1(<<999, 1>>, Scale)],
       [variables |-> <<"Earthquake">>, values |-> Array1(<<998, 2>>, Scale)],
       [variables |-> <<"Burglary", "Earthquake", "Alarm">>,
        values |-> Array3(<< << <<999, 1>>, <<710, 290>> >>,
                             << <<60, 940>>, <<50, 950>> >> >>, Scale)],
       [variables |-> <<"Alarm", "JohnCalls">>,
        values |-> Array2(<< <<950, 50>>, <<100, 900>> >>, Scale)],
       [variables |-> <<"Alarm", "MaryCalls">>,
        values |-> Array2(<< <<990, 10>>, <<300, 700>> >>, Scale)] >>

BayesianAdjacency ==
    << <<1, 0, 0, 0, 0>>,
       <<1, 0, 0, 0, 0>>,
       <<0, 0, 0, 1, 1>>,
       <<0, 0, 0, 0, 0>>,
       <<0, 0, 0, 0, 0>> >>

BayesianFactors ==
    [RunFactors EXCEPT ![1].values = Array1(<<990, 10>>, Scale),
                       ![2].values = Array1(<<980, 20>>, Scale)]

\* A network whose Alarm -> JohnCalls table is all zero: no CPT is validated.
ZeroFactors ==
    [RunFactors EXCEPT ![4].values = Array2(<< <<0, 0>>, <<0, 0>> >>, Scale)]

Networks ==
    { [nodes |-> Names, graph |-> DiGraph(RunAdjacency), factors |-> RunFactors],
      [nodes |-> Names, graph |-> DiGraph(BayesianAdjacency), factors |-> BayesianFactors],
      [nodes |-> Names, graph |-> DiGraph(AlarmAdjacency), factors |-> RunFactors],
      [nodes |-> Names, graph |-> DiGraph(AlarmAdjacency), factors |-> ZeroFactors] }

\* self.nodes.index(name), 0-based like the graph's nodes
NodeIndex(name) == (CHOOSE i \in DOMAIN nodes : nodes[i] = name) - 1

Evidences ==
    UNION {[S -> Values] : S \in {T \in SUBSET SetOf(Names) : Cardinality(T) <= MaxEvidence}}

(***************************************************************************)
(* d_separation                                                            *)
(***************************************************************************)
Predecessors(g, n) == {e[1] : e \in {d \in g.edges : d[2] = n}}
Successors(g, n) == {e[2] : e \in {d \in g.edges : d[1] = n}}

\* MoralGraph without the edges between co-parents.
MoralGraphUnmarried(g) ==
    [nodes |-> g.nodes, edges |-> g.edges \cup {<<e[2], e[1]>> : e \in g.edges}]

\* nx.moral_graph(G): G undirected, plus an edge between every two
\* predecessors of a node.  An undirected edge is held in both directions.
MoralGraph(g) ==
    LET und == g.edges \cup {<<e[2], e[1]>> : e \in g.edges}
        married == {p \in g.nodes \X g.nodes :
                      /\ p[1] # p[2]
                      /\ \E n \in g.nodes :
                            {p[1], p[2]} \subseteq Predecessors(g, n)}
    IN  [nodes |-> g.nodes, edges |-> und \cup married]

\* Graph.remove_nodes_from(Z)
RemoveNodesFrom(g, Z) ==
    [nodes |-> g.nodes \ Z,
     edges |-> {e \in g.edges : e[1] \notin Z /\ e[2] \notin Z}]

RECURSIVE Reachable(_, _)
Reachable(S, g) ==
    LET T == S \cup {e[2] : e \in {d \in g.edges : d[1] \in S}}
    IN  IF T = S THEN S ELSE Reachable(T, g)

\* nx.has_path(G, X, Y); NodeNotFound when X or Y is not a node of G
HasPath(g, X, Y) ==
    IF X \notin g.nodes \/ Y \notin g.nodes
    THEN [status |-> "NodeNotFound", value |-> FALSE]
    ELSE [status |-> "returned", value |-> Y \in Reachable({X}, g)]

DSeparationResult(X, Y, Z) ==
    LET moralized_graph == RemoveNodesFrom(MoralGraph(graph), {NodeIndex(z) : z \in Z})
        path == HasPath(moralized_graph, NodeIndex(X), NodeIndex(Y))
    IN  [status |-> path.status, value |-> (path.status = "returned" /\ ~path.value)]


(***************************************************************************)
(* What a variable holds while its call is not the one in hand             *)
(***************************************************************************)
NoArray == [data |-> <<>>, den |-> 1]
NoFactor == [variables |-> <<>>, values |-> NoArray]
NoEvidence == CHOOSE e \in Evidences : DOMAIN e = {}

NoDsep == [X |-> "", Y |-> "", Z |-> {}, status |-> "none", value |-> FALSE]
NoVe == [query_var |-> "", evidence |-> NoEvidence, relevant_factors |-> <<>>,
         pending |-> {}]
NoVeResult == [status |-> "none", query_var |-> "", evidence |-> NoEvidence,
               factor |-> NoFactor, warned |-> FALSE]
NoMul == [called |-> FALSE, inputs |-> <<>>, output |-> NoFactor]
NoGibbs == [query_var |-> "", evidence |-> NoEvidence, num_samples |-> 0,
            burn_in |-> 0, state |-> <<>>, i |-> 0, pos |-> 0, samples |-> <<>>,
            resampled |-> 0, recorded |-> <<>>]
NoSample == [called |-> FALSE, var |-> "", relevant |-> <<>>, weights |-> <<>>]
NoGibbsResult == [status |-> "none", sum |-> 0, len |-> 0]

d_separation(X, Y, Z) ==
    /\ pc = "idle"
    /\ LET r == DSeparationResult(X, Y, Z)
       IN  dsep' = [X |-> X, Y |-> Y, Z |-> Z, status |-> r.status, value |-> r.value]
    /\ pc' = "done"
    /\ UNCHANGED <<nodes, graph, factors, ve, veResult, lastMul, gibbs,
                   lastSample, gibbsResult>>

(***************************************************************************)
(* variable_elimination                                                    *)
(*                                                                         *)
(* An entry of the working list relevant_factors carries ref: the 1-based  *)
(* position in bn.factors of the dict it is (the list holds the network's  *)
(* own dicts), or 0 for a dict made by sum_out_variable.                   *)
(***************************************************************************)
Indices(s) == [i \in 1..Len(s) |-> i]

InScope(var, f) == \E k \in DOMAIN f.variables : f.variables[k] = var

\* list.index(x): the first position of x
ListIndex(s, x) == CHOOSE i \in DOMAIN s : s[i] = x /\ \A j \in 1..(i - 1) : s[j] # x

\* line 34
RelevantFactors(query_var, evidence) ==
    LET keep == SelectSeq(Indices(factors),
                          LAMBDA i : \/ InScope(query_var, factors[i])
                                     \/ \E e \in DOMAIN evidence : InScope(e, factors[i]))
    IN  [k \in 1..Len(keep) |->
            [variables |-> factors[keep[k]].variables,
             values    |-> factors[keep[k]].values,
             ref       |-> keep[k]]]

\* line 35: the variables the loop runs over
EliminationSet(relevant_factors, query_var, evidence) ==
    ((UNION {SetOf(relevant_factors[k].variables) : k \in DOMAIN relevant_factors})
        \ {query_var}) \ DOMAIN evidence

RECURSIVE MultiplyValues(_, _, _)
MultiplyValues(result, fs, k) ==
    IF k > Len(fs) THEN result
    ELSE MultiplyValues(NpMultiply(result, fs[k].values), fs, k + 1)

\* multiply_factors(factors), for a non-empty list
multiply_factors(fs) ==
    [variables |-> fs[1].variables,
     values    |-> MultiplyValues(fs[1].values, fs, 2)]

sum_out_variable(factor, var) ==
    LET axis == ListIndex(factor.variables, var)
    IN  [variables |-> SelectSeq(factor.variables, LAMBDA v : v # var),
         values    |-> NpSumAxis(factor.values, axis)]

VarsContaining(fs, var) == SelectSeq(fs, LAMBDA f : InScope(var, f))
VarsNotContaining(fs, var) == SelectSeq(fs, LAMBDA f : ~InScope(var, f))

variable_elimination(query_var, evidence) ==
    /\ pc = "idle"
    /\ LET rel == RelevantFactors(query_var, evidence)
       IN  ve' = [query_var |-> query_var, evidence |-> evidence,
                  relevant_factors |-> rel,
                  pending |-> EliminationSet(rel, query_var, evidence)]
    /\ pc' = "ve"
    /\ UNCHANGED <<nodes, graph, factors, dsep, veResult, lastMul, gibbs,
                   lastSample, gibbsResult>>

\* One pass of the loop of line 35; a Python set gives its members in no fixed order.
eliminate_variable(var) ==
    /\ pc = "ve"
    /\ var \in ve.pending
    /\ LET relevant == VarsContaining(ve.relevant_factors, var)
           new_factors == VarsNotContaining(ve.relevant_factors, var)
       IN  IF relevant = <<>>
           THEN \* factors[0] of an empty list in multiply_factors
                /\ veResult' = [status |-> "IndexError", query_var |-> ve.query_var,
                                evidence |-> ve.evidence, factor |-> NoFactor,
                                warned |-> FALSE]
                /\ ve' = NoVe
                /\ pc' = "done"
                /\ UNCHANGED lastMul
           ELSE LET combined_factor == multiply_factors(relevant)
                    summed_out == sum_out_variable(combined_factor, var)
                IN  /\ lastMul' = [called |-> TRUE,
                                   inputs |-> [k \in DOMAIN relevant |->
                                                [variables |-> relevant[k].variables,
                                                 values |-> relevant[k].values]],
                                   output |-> combined_factor]
                    /\ ve' = [ve EXCEPT
                                !.relevant_factors =
                                    Append(new_factors,
                                           [variables |-> summed_out.variables,
                                            values |-> summed_out.values,
                                            ref |-> 0]),
                                !.pending = @ \ {var}]
                    /\ UNCHANGED <<veResult, pc>>
    /\ UNCHANGED <<nodes, graph, factors, dsep, gibbs, lastSample, gibbsResult>>

\* line 37: the loop is over
normalize_factors ==
    /\ pc = "ve"
    /\ ve.pending = {}
    /\ IF ve.relevant_factors = <<>>
       THEN \* factors[0] of an empty list
            /\ veResult' = [status |-> "IndexError", query_var |-> ve.query_var,
                            evidence |-> ve.evidence, factor |-> NoFactor,
                            warned |-> FALSE]
            /\ UNCHANGED factors
       ELSE LET first == ve.relevant_factors[1]
                total == NpSum(first.values)
            IN  IF total = 0
                THEN /\ veResult' = [status |-> "returned", query_var |-> ve.query_var,
                                     evidence |-> ve.evidence,
                                     factor |-> [variables |-> first.variables,
                                                 values |-> first.values],
                                     warned |-> TRUE]
                     /\ UNCHANGED factors
                ELSE LET divided == NpDivideByTotal(first.values)
                     IN  /\ veResult' = [status |-> "returned",
                                         query_var |-> ve.query_var,
                                         evidence |-> ve.evidence,
                                         factor |-> [variables |-> first.variables,
                                                     values |-> divided],
                                         warned |-> FALSE]
                         \* /= writes into the array, which the network's factor holds too
                         /\ factors' = IF first.ref = 0 THEN factors
                                       ELSE [factors EXCEPT ![first.ref].values = divided]
    /\ ve' = NoVe
    /\ pc' = "done"
    /\ UNCHANGED <<nodes, graph, dsep, lastMul, gibbs, lastSample, gibbsResult>>

(***************************************************************************)
(* gibbs_sampling                                                          *)
(***************************************************************************)
\* n == name, for a graph node n (an int) and a variable name (a str): in
\* Python an int and a str are never equal.
PyEqIntStr(n, name) == FALSE

\* n in f['variables'], line 91: n is a node of self.graph
NodeInVariables(n, variables) ==
    \E k \in DOMAIN variables : PyEqIntStr(n, variables[k])

\* line 90
Blanket(var) ==
    Predecessors(graph, NodeIndex(var)) \cup Successors(graph, NodeIndex(var))

\* line 91: the positions in self.factors of the factors kept
SampleRelevant(var) ==
    SelectSeq(Indices(factors),
              LAMBDA i : \E n \in Blanket(var) : NodeInVariables(n, factors[i].variables))

\* factor['values'][index], index = tuple(state[v] for v in factor['variables'])
EntryAt(f, state) ==
    LET index == [k \in 1..Len(f.variables) |-> state[f.variables[k]]]
    IN  [num |-> f.values.data[index], den |-> f.values.den]

RECURSIVE ProbDist(_, _, _, _)
\* lines 93-96: both entries of prob_dist are multiplied by the same scalar
ProbDist(p, relevant, k, state) ==
    IF k > Len(relevant) THEN p
    ELSE LET e == EntryAt(factors[relevant[k]], state)
         IN  ProbDist([v \in Values |-> [num |-> p[v].num * e.num,
                                         den |-> p[v].den * e.den]],
                      relevant, k + 1, state)

\* np.ones(2)
Ones == [v \in Values |-> [num |-> 1, den |-> 1]]

\* sample_var(var, state): the weights, and the values np.random.choice can give
\* (none when the weights sum to zero: prob_dist is NaN and the call raises).
SampleWeights(var, state) == ProbDist(Ones, SampleRelevant(var), 1, state)

SampleOutcomes(weights) == {v \in Values : weights[v].num > 0}

\* state[var] = val for the evidence, lines 75-76
Overwrite(state, evidence) ==
    [var \in DOMAIN state \cup DOMAIN evidence |->
        IF var \in DOMAIN evidence THEN evidence[var] ELSE state[var]]

\* NotInEvidence with the test of line 80 left out.
NotInEvidenceDropped(var, evidence) == TRUE

\* var not in evidence, line 80
NotInEvidence(var, evidence) == var \notin DOMAIN evidence

\* Collects with > for >=.
CollectsLate(i, burn_in) == i > burn_in

\* i >= burn_in, line 82
Collects(i, burn_in) == i >= burn_in

\* range(num_samples + burn_in), line 78
Sweeps(num_samples, burn_in) == num_samples + burn_in

\* lines 73-76: np.random.choice([0, 1]) for every node, then the evidence
gibbs_sampling(query_var, evidence, num_samples, burn_in) ==
    /\ pc = "idle"
    /\ \E random \in [SetOf(nodes) -> Values] :
          gibbs' = [query_var |-> query_var, evidence |-> evidence,
                    num_samples |-> num_samples, burn_in |-> burn_in,
                    state |-> Overwrite(random, evidence),
                    i |-> 0, pos |-> 1, samples |-> <<>>,
                    resampled |-> 0, recorded |-> <<>>]
    /\ pc' = "gibbs"
    /\ UNCHANGED <<nodes, graph, factors, dsep, ve, veResult, lastMul,
                   lastSample, gibbsResult>>

\* lines 79-81: one pass of the inner loop, for var = self.nodes[pos]
visit_node ==
    /\ pc = "gibbs"
    /\ gibbs.i < Sweeps(gibbs.num_samples, gibbs.burn_in)
    /\ gibbs.pos <= Len(nodes)
    /\ LET var == nodes[gibbs.pos]
       IN  IF NotInEvidence(var, gibbs.evidence)
           THEN LET weights == SampleWeights(var, gibbs.state)
                IN  /\ lastSample' = [called |-> TRUE, var |-> var,
                                      relevant |-> SampleRelevant(var),
                                      weights |-> weights]
                    /\ IF SampleOutcomes(weights) = {}
                       THEN /\ gibbsResult' = [status |-> "ValueError", sum |-> 0,
                                               len |-> 0]
                            /\ pc' = "done"
                            /\ UNCHANGED gibbs
                       ELSE /\ \E v \in SampleOutcomes(weights) :
                                  gibbs' = [gibbs EXCEPT !.state[var] = v,
                                                         !.pos = @ + 1,
                                                         !.resampled = @ + 1]
                            /\ UNCHANGED <<gibbsResult, pc>>
           ELSE /\ gibbs' = [gibbs EXCEPT !.pos = @ + 1]
                /\ UNCHANGED <<lastSample, gibbsResult, pc>>
    /\ UNCHANGED <<nodes, graph, factors, dsep, ve, veResult, lastMul>>

RECURSIVE SeqSum(_)
SeqSum(s) == IF s = <<>> THEN 0 ELSE Head(s) + SeqSum(Tail(s))

\* lines 82-83: the inner loop is over
end_sweep ==
    /\ pc = "gibbs"
    /\ gibbs.i < Sweeps(gibbs.num_samples, gibbs.burn_in)
    /\ gibbs.pos = Len(nodes) + 1
    /\ gibbs' = [gibbs EXCEPT
                   !.samples = IF Collects(gibbs.i, gibbs.burn_in)
                               THEN Append(@, gibbs.state[gibbs.query_var]) ELSE @,
                   !.recorded = IF Collects(gibbs.i, gibbs.burn_in)
                                THEN Append(@, [i |-> gibbs.i,
                                                resampled |-> gibbs.resampled])
                                ELSE @,
                   !.i = @ + 1,
                   !.pos = 1,
                   !.resampled = 0]
    /\ UNCHANGED <<nodes, graph, factors, pc, dsep, ve, veResult, lastMul,
                   lastSample, gibbsResult>>

\* sum(samples) / len(samples), as the fraction sum / len
Mean(samples) ==
    IF Len(samples) = 0
    THEN [status |-> "ZeroDivisionError", sum |-> 0, len |-> 0]
    ELSE [status |-> "returned", sum |-> SeqSum(samples), len |-> Len(samples)]

\* line 85: the outer loop is over
gibbs_return ==
    /\ pc = "gibbs"
    /\ gibbs.i = Sweeps(gibbs.num_samples, gibbs.burn_in)
    /\ gibbsResult' = Mean(gibbs.samples)
    /\ pc' = "done"
    /\ UNCHANGED <<nodes, graph, factors, dsep, ve, veResult, lastMul, gibbs,
                   lastSample>>

\* The caller has what the call gave; the call's frame is gone.
Return ==
    /\ pc = "done"
    /\ pc' = "idle"
    /\ dsep' = NoDsep
    /\ ve' = NoVe
    /\ veResult' = NoVeResult
    /\ lastMul' = NoMul
    /\ gibbs' = NoGibbs
    /\ lastSample' = NoSample
    /\ gibbsResult' = NoGibbsResult
    /\ UNCHANGED <<nodes, graph, factors>>

Init ==
    /\ \E n \in Networks :
          /\ nodes = n.nodes
          /\ graph = n.graph
          /\ factors = n.factors
    /\ pc = "idle"
    /\ dsep = NoDsep
    /\ ve = NoVe
    /\ veResult = NoVeResult
    /\ lastMul = NoMul
    /\ gibbs = NoGibbs
    /\ lastSample = NoSample
    /\ gibbsResult = NoGibbsResult

CallDSeparation ==
    \E X \in SetOf(nodes), Y \in SetOf(nodes) :
       \E Z \in {T \in SUBSET SetOf(nodes) : Cardinality(T) <= MaxZ} :
          d_separation(X, Y, Z)

CallVariableElimination ==
    \E query_var \in SetOf(nodes), evidence \in Evidences :
        variable_elimination(query_var, evidence)

EliminateStep == \E var \in SetOf(nodes) : eliminate_variable(var)

NextInfer ==
    \/ CallDSeparation
    \/ CallVariableElimination
    \/ EliminateStep
    \/ normalize_factors
    \/ Return

SpecInfer == Init /\ [][NextInfer]_vars
\* The evidence of the sampling calls: over the variables run.py observes.
GibbsEvidences == {e \in Evidences : DOMAIN e \subseteq {"JohnCalls", "MaryCalls"}}

\* The query variables of the sampling calls: the two run.py asks for.
GibbsQueries == {"Alarm", "Burglary"}

CallGibbsSampling ==
    \E query_var \in GibbsQueries, evidence \in GibbsEvidences :
       \E num_samples \in 0..MaxSamples, burn_in \in 0..MaxBurnIn :
          gibbs_sampling(query_var, evidence, num_samples, burn_in)

NextGibbs ==
    \/ CallGibbsSampling
    \/ visit_node
    \/ end_sweep
    \/ gibbs_return
    \/ Return

SpecGibbs == Init /\ [][NextGibbs]_vars

Next ==
    \/ CallDSeparation
    \/ CallVariableElimination
    \/ EliminateStep
    \/ normalize_factors
    \/ CallGibbsSampling
    \/ visit_node
    \/ end_sweep
    \/ gibbs_return
    \/ Return

Spec == Init /\ [][Next]_vars
(***************************************************************************)
(* The claims                                                              *)
(***************************************************************************)
VeReturned == pc = "done" /\ veResult.status = "returned"

\* C1: for every network, query variable and evidence for which
\* variable_elimination returns, the returned factor's scope is exactly
\* [query_var] and its table has one entry per value of query_var.
C1_ScopeIsQueryVar ==
    VeReturned =>
        /\ veResult.factor.variables = <<veResult.query_var>>
        /\ DOMAIN veResult.factor.values.data = Idx(1)

\* C2: no query mutates the network: every step of d_separation,
\* variable_elimination and gibbs_sampling leaves the factor list (scopes and
\* table entries) and the graph's nodes and edges as they were.
C2_NetworkNeverMutated ==
    [][factors' = factors /\ graph' = graph /\ nodes' = nodes]_vars

\* The assignment the evidence gives, with query_var set to v.
QueryAssignment(query_var, evidence, v) ==
    [x \in DOMAIN evidence \cup {query_var} |-> IF x = query_var THEN v ELSE evidence[x]]

\* C3: when the surviving factor's total is non-zero, the values
\* variable_elimination returns, summed across the query variable's domain
\* (the evidence variables at their evidence values), equal 1.
C3_SumsToOneOverQuery ==
    (VeReturned /\ NpSum(veResult.factor.values) # 0) =>
        LET f == veResult.factor
            entry(v) == EntryAt(f, QueryAssignment(veResult.query_var,
                                                   veResult.evidence, v))
        IN  /\ Ndim(f.values) = Len(f.variables)
            /\ entry(0).num + entry(1).num = f.values.den

AlarmEdges ==
    {<<NodeIndex("Burglary"), NodeIndex("Alarm")>>,
     <<NodeIndex("Earthquake"), NodeIndex("Alarm")>>,
     <<NodeIndex("Alarm"), NodeIndex("JohnCalls")>>,
     <<NodeIndex("Alarm"), NodeIndex("MaryCalls")>>}

DsepCalled(X, Y, Z) ==
    /\ pc = "done"
    /\ dsep.status # "none"
    /\ graph.edges = AlarmEdges
    /\ dsep.X = X /\ dsep.Y = Y /\ dsep.Z = Z

\* C4: on the alarm network, d_separation(Burglary, MaryCalls, {Alarm}) and
\* d_separation(Burglary, JohnCalls, {Alarm}) are true and
\* d_separation(Burglary, Earthquake, {Alarm}) is false.
C4_AlarmDSeparation ==
    /\ DsepCalled("Burglary", "MaryCalls", {"Alarm"}) =>
          (dsep.status = "returned" /\ dsep.value = TRUE)
    /\ DsepCalled("Burglary", "JohnCalls", {"Alarm"}) =>
          (dsep.status = "returned" /\ dsep.value = TRUE)
    /\ DsepCalled("Burglary", "Earthquake", {"Alarm"}) =>
          (dsep.status = "returned" /\ dsep.value = FALSE)

\* The three calls run.py makes, on the graph run.py builds (which also has
\* the edge Burglary -> Earthquake), give the same three answers.
RunDemoDSeparation ==
    (/\ pc = "done" /\ dsep.status = "returned"
     /\ graph = DiGraph(RunAdjacency)
     /\ dsep.X = "Burglary" /\ dsep.Z = {"Alarm"}) =>
        /\ dsep.Y \in {"MaryCalls", "JohnCalls"} => dsep.value = TRUE
        /\ dsep.Y = "Earthquake" => dsep.value = FALSE

C4_Witness ==
    /\ DsepCalled("Burglary", "Earthquake", {"Alarm"})
    /\ dsep.status = "returned"
    /\ dsep.value = FALSE

RECURSIVE EntryProduct(_, _, _)
EntryProduct(fs, k, a) ==
    IF k > Len(fs) THEN [num |-> 1, den |-> 1]
    ELSE LET e == EntryAt(fs[k], a)
             rest == EntryProduct(fs, k + 1, a)
         IN  [num |-> e.num * rest.num, den |-> e.den * rest.den]

\* The join of the factors fs, its scope in the order vs: at each joint
\* assignment of vs, the product of every factor's entry there.
Join(fs, vs) ==
    LET a(idx) == [x \in SetOf(vs) |-> idx[ListIndex(vs, x)]]
        den == EntryProduct(fs, 1, a([k \in 1..Len(vs) |-> 0])).den
    IN  Reduce([data |-> [idx \in Idx(Len(vs)) |-> EntryProduct(fs, 1, a(idx)).num],
                den |-> den])

\* C5: for every non-empty list of factors, multiply_factors returns a factor
\* whose scope is the union of the input scopes and whose value at each joint
\* assignment of that scope is the product of the inputs' entries there.
C5_MultiplyIsJoin ==
    lastMul.called =>
        LET out == lastMul.output
        IN  /\ SetOf(out.variables) =
                  UNION {SetOf(lastMul.inputs[k].variables) : k \in DOMAIN lastMul.inputs}
            /\ Cardinality(SetOf(out.variables)) = Len(out.variables)
            /\ out.values = Join(lastMul.inputs, out.variables)

\* Every variable that shares a factor's scope with var.
SharedScopeBlanket(var) ==
    (UNION {SetOf(factors[i].variables) :
              i \in {j \in DOMAIN factors : InScope(var, factors[j])}}) \ {var}

\* The factors whose scope meets {var} and its blanket.
BlanketFactors(var) ==
    {i \in DOMAIN factors :
        SetOf(factors[i].variables) \cap ({var} \cup SharedScopeBlanket(var)) # {}}

EntriesDiffer(var, state) ==
    \E i \in BlanketFactors(var) :
        EntryAt(factors[i], [state EXCEPT ![var] = 0]).num #
        EntryAt(factors[i], [state EXCEPT ![var] = 1]).num

\* C6: when gibbs_sampling resamples var, the weight of each candidate value v
\* is the product, over every factor whose scope meets {var} and its Markov
\* blanket (every variable sharing a factor scope with var), of that factor's
\* entry at the current state with var set to v; so the two weights differ
\* whenever those entries differ.
C6_WeightsFromBlanketFactors ==
    (pc = "gibbs" /\ lastSample.called) =>
        /\ SetOf(lastSample.relevant) = BlanketFactors(lastSample.var)
        /\ EntriesDiffer(lastSample.var, gibbs.state) =>
              lastSample.weights[0].num * lastSample.weights[1].den #
              lastSample.weights[1].num * lastSample.weights[0].den

GibbsActive == pc \in {"gibbs", "done"} /\ gibbs.query_var # ""

\* C7: in every state of a gibbs_sampling run after initialisation, each
\* evidence variable's entry in the sampler state is its evidence value, and
\* no evidence variable is resampled.
C7_EvidencePinned ==
    GibbsActive =>
        /\ \A e \in DOMAIN gibbs.evidence : gibbs.state[e] = gibbs.evidence[e]
        /\ lastSample.called => lastSample.var \notin DOMAIN gibbs.evidence

C7_Witness ==
    /\ pc = "gibbs"
    /\ DOMAIN gibbs.evidence = {"JohnCalls", "MaryCalls"}
    /\ gibbs.i >= 2
    /\ lastSample.called
    /\ \A e \in DOMAIN gibbs.evidence : gibbs.state[e] = 1 /\ gibbs.evidence[e] = 1

GibbsEnded == pc = "done" /\ gibbsResult.status # "none"

\* C8: gibbs_sampling called with num_samples = 0 reports a
\* sampling-configuration error; it does not end in a division by zero.
C8_ZeroSamplesReported ==
    (GibbsEnded /\ gibbs.num_samples = 0) =>
        gibbsResult.status = "SamplingConfigurationError"

\* C9: when the factor to be normalized sums to exactly zero,
\* variable_elimination surfaces a failure: it never returns an ordinary
\* factor whose total is zero.
C9_ZeroTotalIsFailure ==
    VeReturned => NpSum(veResult.factor.values) # 0

\* C10: for burn_in >= 0 and num_samples >= 1, gibbs_sampling performs exactly
\* burn_in + num_samples sweeps, records nothing during the first burn_in
\* sweeps, records the query variable's value once at the end of each later
\* sweep, after every non-evidence variable was resampled in it, and returns
\* the mean of the num_samples recorded values.
C10_SweepsAndSamples ==
    /\ (pc = "gibbs" /\ gibbs.i <= gibbs.burn_in) => gibbs.samples = <<>>
    /\ (GibbsEnded /\ gibbs.num_samples >= 1) =>
          /\ gibbs.i = gibbs.burn_in + gibbs.num_samples
          /\ Len(gibbs.samples) = gibbs.num_samples
          /\ Len(gibbs.recorded) = gibbs.num_samples
          /\ \A k \in DOMAIN gibbs.recorded :
                /\ gibbs.recorded[k].i = gibbs.burn_in + k - 1
                /\ gibbs.recorded[k].resampled =
                      Cardinality(SetOf(nodes) \ DOMAIN gibbs.evidence)
          /\ gibbsResult.status = "returned"
          /\ gibbsResult.len = gibbs.num_samples
          /\ gibbsResult.sum = Cardinality({k \in DOMAIN gibbs.samples :
                                              gibbs.samples[k] = 1})

C10_Witness ==
    /\ GibbsEnded
    /\ gibbs.num_samples = MaxSamples
    /\ gibbs.burn_in = MaxBurnIn
    /\ gibbsResult.status = "returned"
    /\ gibbsResult.sum = 1
====
